---- MODULE Spec2Model ----
(***************************************************************************)
(* Model of the sequence-diff engine of ax-lab/byte (bootstrap/diff.go):   *)
(* Compare -> computeDiff -> LCS -> computeLCS -> diffFindMidSnakes, plus  *)
(* the block walk of the package's test helper checkDiff.                  *)
(*                                                                         *)
(* Go slices are 0-indexed; the sequences below are TLA+ sequences, so the *)
(* element a[i] of the source is At(a, i).                                 *)
(***************************************************************************)
EXTENDS Integers, Sequences, FiniteSets, TLC

\* Longest input sequence explored.
MaxLen == 4

\* Number of distinct element values explored.
NumSyms == 2

\* largest candidate budget computeLCS is applied with on its own
MaxBudget == 3

\* const maxDiffCandidates = 1024
maxDiffCandidates == 1024

Syms == 1..NumSyms

RECURSIVE SeqsUpTo(_)
SeqsUpTo(k) ==
    IF k = 0 THEN {<<>>}
    ELSE LET shorter == SeqsUpTo(k - 1)
         IN shorter \cup {Append(s, x) : s \in {t \in shorter : Len(t) = k - 1}, x \in Syms}

Inputs == SeqsUpTo(MaxLen)

\* The pair of TestDiffTextBook and TestDiffLCS, "abcabba" and "cbabac", with
\* a, b, c as 1, 2, 3.
TextbookA == <<1, 2, 3, 1, 2, 2, 1>>
TextbookB == <<3, 2, 1, 2, 1, 3>>

\* Compare[T comparable] only ever tests elements with ==, so a pair of inputs
\* is explored in the one naming of its elements in which the values are
\* numbered in order of first occurrence in input followed by output.
FirstOccurrenceOrder(s) ==
    \A i \in 1..Len(s) : \A v \in 1..(s[i] - 1) : \E j \in 1..(i - 1) : s[j] = v

\* a[i] of the source (0-indexed)
At(s, i) == s[i + 1]

\* a[x:y] of the source
Slice(s, x, y) == SubSeq(s, x + 1, y)

(***************************************************************************)
(* diffFindMidSnakes                                                       *)
(***************************************************************************)

\* a snake with its two positions exchanged
diffSnake_transposed(posA, posB, len, diff) ==
    [PosA |-> posB, PosB |-> posA, Len |-> len, Diff |-> diff]

\* type diffSnake struct
diffSnake(posA, posB, len, diff) ==
    [PosA |-> posA, PosB |-> posB, Len |-> len, Diff |-> diff]

\* for nextX < len(a) && nextY < len(b) && a[nextX] == b[nextY] { nextX++; nextY++ }
RECURSIVE snakeFwd(_, _, _, _)
snakeFwd(a, b, nextX, nextY) ==
    IF nextX < Len(a) /\ nextY < Len(b) /\ At(a, nextX) = At(b, nextY)
    THEN snakeFwd(a, b, nextX + 1, nextY + 1)
    ELSE nextX

\* for nextX > 0 && nextY > 0 && a[nextX-1] == b[nextY-1] { nextX--; nextY-- }
RECURSIVE snakeRev(_, _, _, _)
snakeRev(a, b, nextX, nextY) ==
    IF nextX > 0 /\ nextY > 0 /\ At(a, nextX - 1) = At(b, nextY - 1)
    THEN snakeRev(a, b, nextX - 1, nextY - 1)
    ELSE nextX

\* the forward overlap reported with the even distance of the reverse one
fwdDiff_even(hd) == 2 * hd

\* Diff: 2*hd - 1 of a snake found by the forward path
fwdDiff(hd) == 2 * hd - 1

\* the element reads of snakeFwd stay inside a and b
RECURSIVE snakeFwdOK(_, _, _, _)
snakeFwdOK(a, b, nextX, nextY) ==
    IF nextX < Len(a) /\ nextY < Len(b)
    THEN /\ nextX >= 0
         /\ nextY >= 0
         /\ (At(a, nextX) = At(b, nextY)) => snakeFwdOK(a, b, nextX + 1, nextY + 1)
    ELSE TRUE

\* the element reads of snakeRev stay inside a and b
RECURSIVE snakeRevOK(_, _, _, _)
snakeRevOK(a, b, nextX, nextY) ==
    IF nextX > 0 /\ nextY > 0
    THEN /\ nextX - 1 < Len(a)
         /\ nextY - 1 < Len(b)
         /\ (At(a, nextX - 1) = At(b, nextY - 1)) => snakeRevOK(a, b, nextX - 1, nextY - 1)
    ELSE TRUE

\* index i is inside the slice arr
InRange(arr, i) == i \in DOMAIN arr

\* the reads of the switch and of the edge extension: both neighbours in the
\* default case, only the chosen one in the edge cases
neighboursOK(arr, edgeVert, edgeHorz, indexVert, indexHorz) ==
    IF edgeVert THEN InRange(arr, indexVert)
    ELSE IF edgeHorz THEN InRange(arr, indexHorz)
    ELSE InRange(arr, indexHorz) /\ InRange(arr, indexVert)

\* forward path: the diagonal whose furthest point is extended (switch k)
fwdFromK(fwd, hd, k, indexVert, indexHorz) ==
    IF k = -hd THEN indexVert
    ELSE IF k = hd THEN indexHorz
    ELSE IF fwd[indexHorz] >= fwd[indexVert] THEN indexHorz
    ELSE indexVert

\* reverse path: the diagonal whose furthest point is extended (switch k)
revFromK(rev, hd, k, indexVert, indexHorz) ==
    IF k = hd THEN indexVert
    ELSE IF k = -hd THEN indexHorz
    ELSE IF rev[indexHorz] <= rev[indexVert] THEN indexHorz
    ELSE indexVert

\* the break taken one snake too late
budgetReached_late(out, maxCandidates) == Len(out) > maxCandidates

\* if len(out) >= maxCandidates { break }
budgetReached(out, maxCandidates) == Len(out) >= maxCandidates

\* for k := -hd; k <= hd; k += 2 { ... }   (forward path of one hd)
RECURSIVE fwdLoop(_, _, _, _, _, _, _, _)
fwdLoop(a, b, maxCandidates, hd, k, fwd, rev, out) ==
    IF k > hd THEN [fwd |-> fwd, out |-> out, ok |-> TRUE]
    ELSE
      LET n == Len(a)
          m == Len(b)
          delta == n - m
          odd == delta % 2 # 0
          offX == n + m
          offR == offX - delta
          indexVert == k + 1 + offX
          indexHorz == k - 1 + offX
          fromK == fwdFromK(fwd, hd, k, indexVert, indexHorz)
          posX == IF fromK = indexHorz THEN fwd[indexHorz] + 1 ELSE fwd[indexVert]
          nextX == snakeFwd(a, b, posX, posX - k)
          fwd2 == [fwd EXCEPT ![k + offX] = nextX]
          overlap == /\ odd
                     /\ k >= delta - (hd - 1)
                     /\ k <= delta + (hd - 1)
                     /\ rev[k + offR] <= nextX
          out2 == IF overlap
                  THEN Append(out, diffSnake(posX, posX - k, nextX - posX, fwdDiff(hd)))
                  ELSE out
          \* every index of this iteration is in range (else the code panics)
          safe == /\ neighboursOK(fwd, k = -hd, k = hd, indexVert, indexHorz)
                  /\ snakeFwdOK(a, b, posX, posX - k)
                  /\ InRange(fwd, k + offX)
                  /\ (odd /\ k >= delta - (hd - 1) /\ k <= delta + (hd - 1))
                        => InRange(rev, k + offR)
      IN IF ~safe THEN [fwd |-> fwd, out |-> out, ok |-> FALSE]
         ELSE IF overlap /\ budgetReached(out2, maxCandidates)
         THEN [fwd |-> fwd2, out |-> out2, ok |-> TRUE]
         ELSE fwdLoop(a, b, maxCandidates, hd, k + 2, fwd2, rev, out2)

\* for k := hd; k >= -hd; k -= 2 { ... }   (reverse path of one hd)
RECURSIVE revLoop(_, _, _, _, _, _, _, _)
revLoop(a, b, maxCandidates, hd, k, fwd, rev, out) ==
    IF k < -hd THEN [rev |-> rev, out |-> out, ok |-> TRUE]
    ELSE
      LET n == Len(a)
          m == Len(b)
          delta == n - m
          odd == delta % 2 # 0
          offX == n + m
          offR == offX - delta
          kr == k + delta
          indexVert == kr - 1 + offR
          indexHorz == kr + 1 + offR
          fromK == revFromK(rev, hd, k, indexVert, indexHorz)
          posX == IF fromK = indexHorz THEN rev[indexHorz] - 1 ELSE rev[indexVert]
          nextX == snakeRev(a, b, posX, posX - kr)
          nextY == nextX - kr
          rev2 == [rev EXCEPT ![kr + offR] = nextX]
          overlap == /\ ~odd
                     /\ kr >= -hd
                     /\ kr <= hd
                     /\ fwd[kr + offX] >= nextX
          out2 == IF overlap
                  THEN Append(out, diffSnake(nextX, nextY, posX - nextX, 2 * hd))
                  ELSE out
          \* every index of this iteration is in range (else the code panics)
          safe == /\ neighboursOK(rev, k = hd, k = -hd, indexVert, indexHorz)
                  /\ snakeRevOK(a, b, posX, posX - kr)
                  /\ InRange(rev, kr + offR)
                  /\ (~odd /\ kr >= -hd /\ kr <= hd) => InRange(fwd, kr + offX)
      IN IF ~safe THEN [rev |-> rev, out |-> out, ok |-> FALSE]
         ELSE IF overlap /\ budgetReached(out2, maxCandidates)
         THEN [rev |-> rev2, out |-> out2, ok |-> TRUE]
         ELSE revLoop(a, b, maxCandidates, hd, k - 2, fwd, rev2, out2)

\* halfD rounded down instead of up
halfD_floor(n, m) == (n + m) \div 2

\* halfD := (n + m + 1) / 2
halfD(n, m) == (n + m + 1) \div 2

\* for hd := 0; len(out) == 0 && hd <= halfD; hd++ { forward path; reverse path }
RECURSIVE hdLoop(_, _, _, _, _, _, _)
hdLoop(a, b, maxCandidates, hd, fwd, rev, out) ==
    IF Len(out) # 0 \/ hd > halfD(Len(a), Len(b)) THEN [out |-> out, ok |-> TRUE]
    ELSE LET f == fwdLoop(a, b, maxCandidates, hd, -hd, fwd, rev, out)
             r == revLoop(a, b, maxCandidates, hd, hd, f.fwd, rev, f.out)
         IN IF ~f.ok THEN [out |-> f.out, ok |-> FALSE]
            ELSE IF ~r.ok THEN [out |-> r.out, ok |-> FALSE]
            ELSE hdLoop(a, b, maxCandidates, hd + 1, f.fwd, r.rev, r.out)

\* diagLen without room for the negative diagonals
diagLen_short(maxD) == maxD + 1

\* make([]int, 2*maxD+1)
diagLen(maxD) == 2 * maxD + 1

\* the body of diffFindMidSnakes: the snakes found, and ok = FALSE when an
\* index went out of range on the way (the code panics there)
midSnakeSearch(a, b, maxCandidates) ==
    LET n == Len(a)
        maxD == n + Len(b)
        fwd == [i \in 0..(diagLen(maxD) - 1) |-> 0]
        rev == [i \in 0..(diagLen(maxD) - 1) |-> n]
    IN hdLoop(a, b, maxCandidates, 0, fwd, rev, <<>>)

\* func diffFindMidSnakes(a, b []T, maxCandidates int) (out []diffSnake)
diffFindMidSnakes(a, b, maxCandidates) == midSnakeSearch(a, b, maxCandidates).out

(***************************************************************************)
(* computeLCS                                                              *)
(***************************************************************************)

\* type CommonSequence struct
CommonSequence(posA, posB, len) == [PosA |-> posA, PosB |-> posB, Len |-> len]

\* trivialLCS with the test of the first elements inverted
trivialLCS_inverted(a, ax, ay, b, bx, by) ==
    LET n == ay - ax
        m == by - bx
    IN IF n < m
       THEN IF At(a, ax) # At(b, bx)
            THEN <<CommonSequence(ax, bx, n)>>
            ELSE <<CommonSequence(ax, bx + 1, n)>>
       ELSE IF At(a, ax) # At(b, bx)
            THEN <<CommonSequence(ax, bx, m)>>
            ELSE <<CommonSequence(ax + 1, bx, m)>>

\* The branch of computeLCS for a snake with Diff <= 1: a single run of the
\* length of the shorter side.
trivialLCS(a, ax, ay, b, bx, by) ==
    LET n == ay - ax
        m == by - bx
    IN IF n < m
       THEN IF At(a, ax) = At(b, bx)
            THEN <<CommonSequence(ax, bx, n)>>
            ELSE <<CommonSequence(ax, bx + 1, n)>>
       ELSE IF At(a, ax) = At(b, bx)
            THEN <<CommonSequence(ax, bx, m)>>
            ELSE <<CommonSequence(ax + 1, bx, m)>>

\* withMid that appends the snake also when it is empty
withMid_noLenCheck(pre, midA, midB, len) == Append(pre, CommonSequence(midA, midB, len))

\* withMid that forgets the middle snake
withMid_dropped(pre, midA, midB, len) == pre

\* if mid.Len > 0 { pre = append(pre, CommonSequence{midA, midB, mid.Len}) }
withMid(pre, midA, midB, len) ==
    IF len > 0 THEN Append(pre, CommonSequence(midA, midB, len)) ELSE pre

\* out = append(out, pre ++ pos); if len(out) >= maxCandidates { break }
appendSuffix(st, pre, pos, maxCandidates) ==
    [out |-> Append(st.out, pre \o pos),
     done |-> Len(st.out) + 1 >= maxCandidates]

\* for _, pos := range suffixes { ... }: the iterations lo..hi from the state
\* st = [out, done], done after the break.  The range is run in two halves,
\* the second from the state the first one leaves.
RECURSIVE suffixLoop(_, _, _, _, _, _)
suffixLoop(st, pre, suffixes, lo, hi, maxCandidates) ==
    IF lo > hi \/ st.done THEN st
    ELSE IF lo = hi THEN appendSuffix(st, pre, suffixes[lo], maxCandidates)
    ELSE suffixLoop(suffixLoop(st, pre, suffixes, lo, (lo + hi) \div 2, maxCandidates),
                    pre, suffixes, (lo + hi) \div 2 + 1, hi, maxCandidates)

(***************************************************************************)

\* a[x:y] is a valid slice expression
sliceOK(a, x, y) == 0 <= x /\ x <= y /\ y <= Len(a)

\* the measure of a sub-range: its two sides together, zero where
\* computeLCS returns at once
rangeSize(ax, ay, bx, by) ==
    IF ay - ax <= 0 \/ by - bx <= 0 THEN 0 ELSE (ay - ax) + (by - bx)

\* the prefix and the suffix sub-range of the snake mid, as computeLCS passes them on
prefixRange(ax, ay, bx, by, mid) ==
    [ax |-> ax, ay |-> mid.PosA + ax, bx |-> bx, by |-> mid.PosB + bx]
suffixRange(ax, ay, bx, by, mid) ==
    [ax |-> mid.PosA + ax + mid.Len, ay |-> ay, bx |-> mid.PosB + bx + mid.Len, by |-> by]

\* r lies inside [ax, ay) x [bx, by) and is strictly smaller
strictlySmaller(r, ax, ay, bx, by) ==
    /\ ax <= r.ax /\ r.ay <= ay
    /\ bx <= r.bx /\ r.by <= by
    /\ rangeSize(r.ax, r.ay, r.bx, r.by) < rangeSize(ax, ay, bx, by)

\* both sub-ranges of the snake mid are strictly smaller than the range
subRangesShrink(ax, ay, bx, by, mid) ==
    /\ strictlySmaller(prefixRange(ax, ay, bx, by, mid), ax, ay, bx, by)
    /\ strictlySmaller(suffixRange(ax, ay, bx, by, mid), ax, ay, bx, by)

\* the split test also taken for a snake of one edit
splits_always(mid) == mid.Diff > 0

\* if mid.Diff > 1 { split at the snake and recurse } else { trivial case }
splits(mid) == mid.Diff > 1

\* one call of computeLCS that reached the snake search: its arguments, the
\* snakes found, and ok = FALSE when a slice or an index was out of range
callOK(c) == c.ok
callDescends(c) ==
    \A i \in 1..Len(c.ls) : splits(c.ls[i]) => subRangesShrink(c.ax, c.ay, c.bx, c.by, c.ls[i])

\* computeLCS and its loops work on records [out, calls, ok]: out is the Go
\* value, calls the set of calls made so far that reached the snake search,
\* and ok = FALSE once a call has failed or a snake has split into a range that
\* does not shrink.  After that nothing more is evaluated: the failing call
\* stays in calls.
RECURSIVE computeLCS(_, _, _, _, _, _, _)
RECURSIVE prefixLoop(_, _, _, _, _, _, _, _, _, _, _, _, _)
RECURSIVE midLoop(_, _, _, _, _, _, _, _, _, _)

\* the body of the loop over prefixes, suffixes being the result of the
\* suffix call: out = append(out, pre ++ pos) for each, or pre alone
withSuffixes(acc, pre, suffixes, maxCandidates) ==
    [out |-> IF Len(suffixes.out) = 0
             THEN Append(acc.out, pre)
             ELSE suffixLoop([out |-> acc.out, done |-> FALSE], pre, suffixes.out,
                             1, Len(suffixes.out), maxCandidates).out,
     calls |-> acc.calls \cup suffixes.calls,
     ok |-> suffixes.ok]

\* for _, pre := range prefixes { ... }   (one middle snake with Diff > 1): the
\* iterations lo..hi from the state acc, run in two halves
prefixLoop(a, ax, ay, b, bx, by, mid, max, maxCandidates, prefixes, lo, hi, acc) ==
    IF lo > hi \/ ~acc.ok THEN acc
    ELSE IF lo = hi
    THEN withSuffixes(acc,
                      withMid(prefixes[lo], mid.PosA + ax, mid.PosB + bx, mid.Len),
                      computeLCS(a, mid.PosA + ax + mid.Len, ay, b, mid.PosB + bx + mid.Len, by,
                                 max \div Len(prefixes)),
                      maxCandidates)
    ELSE prefixLoop(a, ax, ay, b, bx, by, mid, max, maxCandidates, prefixes,
                    (lo + hi) \div 2 + 1, hi,
                    prefixLoop(a, ax, ay, b, bx, by, mid, max, maxCandidates, prefixes,
                               lo, (lo + hi) \div 2, acc))

\* the branch mid.Diff > 1, computed being the result of the prefix call
splitAt(a, ax, ay, b, bx, by, mid, max, maxCandidates, computed, acc) ==
    LET prefixes == IF Len(computed.out) = 0 THEN <<(<<>>)>> ELSE computed.out
    IN prefixLoop(a, ax, ay, b, bx, by, mid, max, maxCandidates, prefixes,
                  1, Len(prefixes),
                  [out |-> acc.out, calls |-> acc.calls \cup computed.calls,
                   ok |-> computed.ok])

\* the body of the loop over ls for the snake mid
withSnake(a, ax, ay, b, bx, by, mid, max, maxCandidates, acc) ==
    IF splits(mid)
    THEN IF ~subRangesShrink(ax, ay, bx, by, mid)
         THEN [out |-> acc.out, calls |-> acc.calls, ok |-> FALSE]
         ELSE splitAt(a, ax, ay, b, bx, by, mid, max, maxCandidates,
                      computeLCS(a, ax, mid.PosA + ax, b, bx, mid.PosB + bx, max), acc)
    ELSE [out |-> Append(acc.out, trivialLCS(a, ax, ay, b, bx, by)),
          calls |-> acc.calls, ok |-> TRUE]

\* every snake handed the whole budget
snakeBudget_whole(maxCandidates, count) == maxCandidates

\* max := maxCandidates / len(ls)
snakeBudget(maxCandidates, count) == maxCandidates \div count

\* for _, mid := range ls { ... }: the iterations from i on, from the state acc
midLoop(a, ax, ay, b, bx, by, maxCandidates, ls, i, acc) ==
    IF i > Len(ls) \/ ~acc.ok THEN acc
    ELSE midLoop(a, ax, ay, b, bx, by, maxCandidates, ls, i + 1,
                 withSnake(a, ax, ay, b, bx, by, ls[i], snakeBudget(maxCandidates, Len(ls)),
                           maxCandidates, acc))

\* the record of one call: its arguments, the result found of its snake
\* search, and the candidate lists out it returned
callRecord(ax, ay, bx, by, mc, found, out) ==
    [ax |-> ax, ay |-> ay, bx |-> bx, by |-> by, maxCandidates |-> mc,
     ls |-> found.out, ok |-> found.ok, out |-> out]

\* return out, r being the state the loop over ls leaves
returned(ax, ay, bx, by, mc, found, r) ==
    [out |-> r.out,
     calls |-> r.calls \cup {callRecord(ax, ay, bx, by, mc, found, r.out)},
     ok |-> r.ok]

\* computeLCS after ls := diffFindMidSnakes(a[ax:ay], b[bx:by], maxCandidates)
withSnakes(a, ax, ay, b, bx, by, mc, found) ==
    returned(ax, ay, bx, by, mc, found,
             midLoop(a, ax, ay, b, bx, by, mc, found.out, 1,
                     [out |-> <<>>, calls |-> {}, ok |-> found.ok]))

\* func computeLCS(a []T, ax, ay int, b []T, bx, by int, maxCandidates int) [][]CommonSequence
computeLCS(a, ax, ay, b, bx, by, maxCandidates) ==
    IF ay - ax <= 0 \/ by - bx <= 0 THEN [out |-> <<>>, calls |-> {}, ok |-> TRUE]
    ELSE LET mc == IF maxCandidates <= 0 THEN 1 ELSE maxCandidates
         IN withSnakes(a, ax, ay, b, bx, by, mc,
                       IF sliceOK(a, ax, ay) /\ sliceOK(b, bx, by)
                       THEN midSnakeSearch(Slice(a, ax, ay), Slice(b, bx, by), mc)
                       ELSE [out |-> <<>>, ok |-> FALSE])

(***************************************************************************)
(* Candidate ranking                                                       *)
(***************************************************************************)

\* for _, it := range lcs { ... }  of diffSegmentCount; st = [count, a, b, del, ins]
RECURSIVE segmentLoop(_, _, _)
segmentLoop(lcs, i, st) ==
    IF i > Len(lcs) THEN st
    ELSE LET it == lcs[i]
             gapA == it.PosA > st.a
             gapB == it.PosB > st.b
         IN segmentLoop(lcs, i + 1,
              [count |-> st.count + (IF gapA THEN 1 ELSE 0) + (IF gapB THEN 1 ELSE 0),
               del   |-> st.del + (IF gapA THEN st.a ELSE 0),
               ins   |-> st.ins + (IF gapB THEN st.b ELSE 0),
               a     |-> it.PosA + it.Len,
               b     |-> it.PosB + it.Len])

\* func diffSegmentCount(lcs []CommonSequence, lenA, lenB int) (count, editCost int)
diffSegmentCount(lcs, lenA, lenB) ==
    LET st == segmentLoop(lcs, 1, [count |-> Len(lcs), del |-> 0, ins |-> 0, a |-> 0, b |-> 0])
        tailA == st.a < lenA
        tailB == st.b < lenB
        count == st.count + (IF tailA THEN 1 ELSE 0) + (IF tailB THEN 1 ELSE 0)
        deleteCost == st.del + (IF tailA THEN st.a ELSE 0)
        insertCost == st.ins + (IF tailB THEN st.b ELSE 0)
    IN [count |-> count, editCost |-> IF lenA < lenB THEN insertCost ELSE deleteCost]

\* diffCompare without the tie break on the edit cost
diffCompare_segmentsOnly(d1, d2, lenA, lenB) ==
    diffSegmentCount(d1, lenA, lenB).count - diffSegmentCount(d2, lenA, lenB).count

\* func diffCompare(d1, d2 []CommonSequence, lenA, lenB int) int
diffCompare(d1, d2, lenA, lenB) ==
    LET s1 == diffSegmentCount(d1, lenA, lenB)
        s2 == diffSegmentCount(d2, lenA, lenB)
    IN IF s1.count # s2.count THEN s1.count - s2.count
       ELSE s1.editCost - s2.editCost

\* sort.Slice(ls, ...); if len(ls) > 0 { out = ls[0] }: the candidates that
\* sort.Slice may leave at ls[0].  sort.Slice is documented as not stable, so any
\* candidate that no other candidate precedes under diffCompare may be first.
sortedFirst(ls, lenA, lenB) ==
    IF Len(ls) = 0 THEN {<<>>}
    ELSE {ls[i] : i \in {x \in 1..Len(ls) :
             \A y \in 1..Len(ls) : diffCompare(ls[y], ls[x], lenA, lenB) >= 0}}

\* LCS with the calls computeLCS made, found being the result of computeLCS
lcsOf(found, lenA, lenB) ==
    [out |-> IF found.ok THEN sortedFirst(found.out, lenA, lenB) ELSE {<<>>},
     calls |-> found.calls,
     ls |-> found.out]

\* func LCS(a, b []T) (out []CommonSequence): out is the set of values LCS may
\* return, calls the calls of computeLCS behind it
LCS(a, b) ==
    lcsOf(computeLCS(a, 0, Len(a), b, 0, Len(b), maxDiffCandidates), Len(a), Len(b))

(***************************************************************************)
(* computeDiff                                                             *)
(***************************************************************************)

\* type DiffBlock struct
DiffBlock(kind, src, dst, len) == [Kind |-> kind, Src |-> src, Dst |-> dst, Len |-> len]

\* deleteBlock bound to the posB of the upcoming run
deleteBlock_dstNext(srcLast, dstLast, src, dst) == DiffBlock(-1, srcLast, dst, src - srcLast)

\* DiffBlock{Kind: -1, Src: srcLast, Dst: dstLast, Len: del}
deleteBlock(srcLast, dstLast, src, dst) == DiffBlock(-1, srcLast, dstLast, src - srcLast)

\* insertBlock bound to the posB of the upcoming run
insertBlock_dstNext(srcLast, dstLast, src, dst) == DiffBlock(1, src, dst, dst - dstLast)

\* insertBlock bound to the source position before the delete
insertBlock_srcLast(srcLast, dstLast, src, dst) == DiffBlock(1, srcLast, dstLast, dst - dstLast)

\* DiffBlock{Kind: +1, Src: src, Dst: dstLast, Len: ins}
insertBlock(srcLast, dstLast, src, dst) == DiffBlock(1, src, dstLast, dst - dstLast)

\* appendEqual that never merges into the preceding equal block
appendEqual_noMerge(out, it) ==
    IF it.Len <= 0 THEN out
    ELSE Append(out, DiffBlock(0, it.PosA, it.PosB, it.Len))

\* appendEqual that also appends empty runs
appendEqual_noLenCheck(out, it) ==
    IF Len(out) > 0 /\ out[Len(out)].Kind = 0
    THEN [out EXCEPT ![Len(out)].Len = @ + it.Len]
    ELSE Append(out, DiffBlock(0, it.PosA, it.PosB, it.Len))

\* if it.Len > 0 { merge into a preceding equal block, else append an equal block }
appendEqual(out, it) ==
    IF it.Len <= 0 THEN out
    ELSE IF Len(out) > 0 /\ out[Len(out)].Kind = 0
         THEN [out EXCEPT ![Len(out)].Len = @ + it.Len]
         ELSE Append(out, DiffBlock(0, it.PosA, it.PosB, it.Len))

\* for _, it := range lcs { ... }  of computeDiff
RECURSIVE blockLoop(_, _, _, _, _)
blockLoop(lcs, i, srcLast, dstLast, out) ==
    IF i > Len(lcs) THEN out
    ELSE LET it == lcs[i]
             src == it.PosA
             dst == it.PosB
             out1 == IF src - srcLast > 0
                     THEN Append(out, deleteBlock(srcLast, dstLast, src, dst))
                     ELSE out
             out2 == IF dst - dstLast > 0
                     THEN Append(out1, insertBlock(srcLast, dstLast, src, dst))
                     ELSE out1
         IN blockLoop(lcs, i + 1, src + it.Len, dst + it.Len, appendEqual(out2, it))

\* withSentinel that forgets the trailing run
withSentinel_missing(lcs, lenA, lenB) == lcs

\* lcs = append(lcs, CommonSequence{PosA: len(input), PosB: len(output), Len: 0})
withSentinel(lcs, lenA, lenB) == Append(lcs, CommonSequence(lenA, lenB, 0))

\* func computeDiff(input, output []T) (out []DiffBlock), for the candidate
\* that LCS(input, output) returned
computeDiff(lcs, lenA, lenB) == blockLoop(withSentinel(lcs, lenA, lenB), 1, 0, 0, <<>>)

(***************************************************************************)
(* Diff.Text and Diff.String                                               *)
(***************************************************************************)

Digit(d) == CASE d = 0 -> "0" [] d = 1 -> "1" [] d = 2 -> "2" [] d = 3 -> "3"
              [] d = 4 -> "4" [] d = 5 -> "5" [] d = 6 -> "6" [] d = 7 -> "7"
              [] d = 8 -> "8" [] d = 9 -> "9"

\* fmt's %d of a non-negative int, as a sequence of characters
RECURSIVE Decimal(_)
Decimal(v) == IF v < 10 THEN <<Digit(v)>> ELSE Append(Decimal(v \div 10), Digit(v % 10))

\* the sign rune of DiffBlock.String
blockSign(kind) == IF kind < 0 THEN "-" ELSE IF kind > 0 THEN "+" ELSE "="

\* func (blk DiffBlock) String() string: "%c[%d] %d -> %d"
blockString(blk) ==
    <<blockSign(blk.Kind), "[">> \o Decimal(blk.Len) \o <<"]", " ">> \o Decimal(blk.Src)
        \o <<" ", "-", ">", " ">> \o Decimal(blk.Dst)

\* func (diff Diff[T]) String() string
RECURSIVE diffString(_, _, _)
diffString(bs, i, str) ==
    IF i > Len(bs) THEN str
    ELSE diffString(bs, i + 1,
                    (IF Len(str) > 0 THEN Append(str, "\n") ELSE str) \o blockString(bs[i]))

\* the sign rune of Diff.Text
textSign(kind) == IF kind < 0 THEN "-" ELSE IF kind > 0 THEN "+" ELSE " "

\* for i := 0; i < op.Len; i++ { out = append(out, Sprintf("%c%v", sign, txt)) }
RECURSIVE textBlock(_, _, _, _, _)
textBlock(src, dst, op, i, out) ==
    IF i >= op.Len THEN out
    ELSE LET txt == IF op.Kind > 0 THEN At(dst, op.Dst + i) ELSE At(src, op.Src + i)
         IN textBlock(src, dst, op, i + 1, Append(out, <<textSign(op.Kind), txt>>))

\* func (diff Diff[T]) Text() (out []string)
RECURSIVE diffText(_, _, _, _, _)
diffText(src, dst, bs, i, out) ==
    IF i > Len(bs) THEN out
    ELSE diffText(src, dst, bs, i + 1, textBlock(src, dst, bs[i], 0, out))

(***************************************************************************)
(* The rendering checkDiff builds while it walks the blocks                *)
(***************************************************************************)

\* the rune an element stands for in the tests' strings
Letter(x) == CASE x = 1 -> "a" [] x = 2 -> "b" [] x = 3 -> "c" [] x = 4 -> "d"
               [] OTHER -> "e"

\* a[from:from+len] of a test string, as its characters
Letters(s, from, len) == [i \in 1..len |-> Letter(s[from + i])]

\* output.WriteString(...) of one block: "-(" src ")", "+(" dst ")" or src
renderBlock(a, b, op) ==
    IF op.Kind < 0 THEN <<"-", "(">> \o Letters(a, op.Src, op.Len) \o <<")">>
    ELSE IF op.Kind > 0 THEN <<"+", "(">> \o Letters(b, op.Dst, op.Len) \o <<")">>
    ELSE Letters(a, op.Src, op.Len)

\* output.String() after checkDiff's loop
RECURSIVE renderBlocks(_, _, _, _, _)
renderBlocks(a, b, bs, i, acc) ==
    IF i > Len(bs) THEN acc
    ELSE renderBlocks(a, b, bs, i + 1, acc \o renderBlock(a, b, bs[i]))

(***************************************************************************)
(* ComputeD                                                                *)
(***************************************************************************)
\* the horizontal edge left out of the extension
pathStart_noEdge(vec, max, d, k) ==
    IF k = -d \/ (k # d /\ vec[k - 1 + max] < vec[k + 1 + max])
    THEN vec[k + 1 + max]
    ELSE vec[k - 1 + max]

\* if k == -d || (k != d && get(k-1) < get(k+1)) { x = get(k + 1) } else { x = get(k-1) + 1 }
pathStart(vec, max, d, k) ==
    IF k = -d \/ (k # d /\ vec[k - 1 + max] < vec[k + 1 + max])
    THEN vec[k + 1 + max]
    ELSE vec[k - 1 + max] + 1

\* the reads of vec that pathStart makes are inside vec
pathStartOK(vec, max, d, k) ==
    IF k = -d THEN InRange(vec, k + 1 + max)
    ELSE IF k # d THEN InRange(vec, k - 1 + max) /\ InRange(vec, k + 1 + max)
    ELSE InRange(vec, k - 1 + max)

\* for x < len(a) && y < len(b) && a[x] == b[y] { x++; y++ }
RECURSIVE extendSnake(_, _, _, _)
extendSnake(a, b, x, y) ==
    IF x < Len(a) /\ y < Len(b) /\ At(a, x) = At(b, y)
    THEN extendSnake(a, b, x + 1, y + 1)
    ELSE x

\* the element reads of extendSnake stay inside a and b
RECURSIVE extendSnakeOK(_, _, _, _)
extendSnakeOK(a, b, x, y) ==
    IF x < Len(a) /\ y < Len(b)
    THEN /\ x >= 0
         /\ y >= 0
         /\ (At(a, x) = At(b, y)) => extendSnakeOK(a, b, x + 1, y + 1)
    ELSE TRUE

\* for k := -d; k <= d; k += 2 { ... }: found when the path reached (N, M),
\* ok = FALSE when an index went out of range
RECURSIVE kLoop(_, _, _, _, _, _)
kLoop(a, b, max, d, k, vec) ==
    IF k > d THEN [vec |-> vec, found |-> FALSE, ok |-> TRUE]
    ELSE IF ~pathStartOK(vec, max, d, k) THEN [vec |-> vec, found |-> FALSE, ok |-> FALSE]
    ELSE LET start == pathStart(vec, max, d, k)
             x == extendSnake(a, b, start, start - k)
             y == x - k
         IN IF ~extendSnakeOK(a, b, start, start - k) \/ ~InRange(vec, k + max)
            THEN [vec |-> vec, found |-> FALSE, ok |-> FALSE]
            ELSE IF x = Len(a) /\ y = Len(b)
            THEN [vec |-> [vec EXCEPT ![k + max] = x], found |-> TRUE, ok |-> TRUE]
            ELSE kLoop(a, b, max, d, k + 2, [vec EXCEPT ![k + max] = x])

\* for d := 0; d <= max; d++ { ... }; panic("unreachable")
RECURSIVE dLoop(_, _, _, _, _)
dLoop(a, b, max, d, vec) ==
    IF d > max THEN [d |-> -1, end |-> "unreachable"]
    ELSE LET r == kLoop(a, b, max, d, -d, vec)
         IN IF ~r.ok THEN [d |-> -1, end |-> "index"]
            ELSE IF r.found THEN [d |-> d, end |-> "return"]
            ELSE dLoop(a, b, max, d + 1, r.vec)

\* func ComputeD(a, b string) int: the value returned, or how the call ended
ComputeD(a, b) ==
    LET max == Len(a) + Len(b)
    IN IF max = 0 THEN [d |-> 0, end |-> "return"]
       ELSE dLoop(a, b, max, 0, [i \in 0..(2 * max) |-> 0])

(***************************************************************************)
(* State: one comparison, then the walk of checkDiff over its blocks and   *)
(* the renderings the tests read.                                          *)
(***************************************************************************)
VARIABLES
    input,      \* Diff.src
    output,     \* Diff.dst
    calls,      \* the calls of computeLCS made by the comparison
    candidates, \* ls of LCS: the candidate lists computeLCS returned
    lcs,        \* the candidate LCS(input, output) handed to computeDiff
    blocks,     \* Diff.blocks
    pc,         \* "start", "built", "algo", "walk", "walked", "done"; "panic" after an index out
                \* of range, "overflow" after a recursion on a range that did not shrink
    pos,        \* number of blocks checkDiff has consumed
    srcIndex,   \* checkDiff's cursor into a
    dstIndex,   \* checkDiff's cursor into b
    lastKind,   \* checkDiff's lastKind
    fails,      \* the checks of checkDiff that called t.Fail()
    text,       \* Diff.Text()
    str,        \* Diff.String()
    dist        \* what ComputeD(a, b) and ComputeD(b, a) did in TestAlgo's check

vars == <<input, output, dist, calls, candidates, lcs, blocks, pc, pos, srcIndex, dstIndex, lastKind, fails, text, str>>

Init ==
    /\ \/ /\ input \in Inputs
          /\ output \in {o \in Inputs : FirstOccurrenceOrder(input \o o)}
       \/ /\ input = TextbookA
          /\ output = TextbookB
    /\ dist = <<>>
    /\ calls = {}
    /\ candidates = <<>>
    /\ lcs = <<>>
    /\ blocks = <<>>
    /\ pc = "start"
    /\ pos = 0
    /\ srcIndex = 0
    /\ dstIndex = 0
    /\ lastKind = -99
    /\ fails = {}
    /\ text = <<>>
    /\ str = <<>>

\* func Compare(input, output []T) Diff[T]
Compare ==
    /\ pc = "start"
    /\ \E found \in {LCS(input, output)} :
         /\ calls' = found.calls
         /\ candidates' = found.ls
         /\ \E best \in found.out :
              /\ lcs' = best
              /\ blocks' = computeDiff(best, Len(input), Len(output))
    /\ pc' = IF \E c \in calls' : ~callOK(c) THEN "panic"
             ELSE IF \E c \in calls' : ~callDescends(c) THEN "overflow"
             ELSE "walk"
    /\ UNCHANGED <<input, output, dist, pos, srcIndex, dstIndex, lastKind, fails, text, str>>

\* one iteration of checkDiff's loop over diff.Blocks()
WalkBlock ==
    /\ pc = "walk"
    /\ pos < Len(blocks)
    /\ LET op == blocks[pos + 1]
           srcNext == IF op.Kind <= 0 THEN srcIndex + op.Len ELSE srcIndex
           dstNext == IF op.Kind >= 0 THEN dstIndex + op.Len ELSE dstIndex
           differ == op.Kind = 0 /\ \E i \in 0..(op.Len - 1) :
                        \/ op.Src + i >= Len(input)
                        \/ op.Dst + i >= Len(output)
                        \/ At(input, op.Src + i) # At(output, op.Dst + i)
       IN /\ srcIndex' = srcNext
          /\ dstIndex' = dstNext
          /\ lastKind' = op.Kind
          /\ fails' = fails \cup (IF op.Kind = lastKind THEN {"kind"} ELSE {})
                            \cup (IF op.Src # srcIndex THEN {"src"} ELSE {})
                            \cup (IF op.Dst # dstIndex THEN {"dst"} ELSE {})
                            \cup (IF differ THEN {"equal"} ELSE {})
    /\ pos' = pos + 1
    /\ UNCHANGED <<input, output, dist, calls, candidates, lcs, blocks, pc, text, str>>

\* the check after checkDiff's loop
WalkEnd ==
    /\ pc = "walk"
    /\ pos = Len(blocks)
    /\ fails' = fails \cup (IF srcIndex # Len(input) \/ dstIndex # Len(output)
                            THEN {"end"} ELSE {})
    /\ pc' = "walked"
    /\ UNCHANGED <<input, output, dist, calls, candidates, lcs, blocks, pos, srcIndex, dstIndex, lastKind, text, str>>

\* Compare(a, b).Text() and Compare(a, b).String() as the tests read them
Render ==
    /\ pc = "walked"
    /\ text' = diffText(input, output, blocks, 1, <<>>)
    /\ str' = diffString(blocks, 1, <<>>)
    /\ pc' = "done"
    /\ UNCHANGED <<input, output, dist, calls, candidates, lcs, blocks, pos, srcIndex, dstIndex, lastKind, fails>>

Next == Compare \/ WalkBlock \/ WalkEnd \/ Render

Spec == Init /\ [][Next]_vars

\* computeLCS(input, 0, len(input), output, 0, len(output), maxCandidates)
\* applied on its own, under a candidate budget from 0 to MaxBudget
BuildCandidates ==
    /\ pc = "start"
    /\ \E maxCandidates \in 0..MaxBudget :
         \E found \in {computeLCS(input, 0, Len(input), output, 0, Len(output),
                                   maxCandidates)} :
           /\ calls' = found.calls
           /\ candidates' = found.out
    /\ pc' = "built"
    /\ UNCHANGED <<input, output, dist, lcs, blocks, pos, srcIndex, dstIndex, lastKind, fails, text, str>>

NextBudget == BuildCandidates

SpecBudget == Init /\ [][NextBudget]_vars

\* the check of TestAlgo: ComputeD(a, b) and ComputeD(b, a)
TestAlgo ==
    /\ pc = "start"
    /\ dist' = <<ComputeD(input, output), ComputeD(output, input)>>
    /\ pc' = "algo"
    /\ UNCHANGED <<input, output, calls, candidates, lcs, blocks, pos, srcIndex, dstIndex, lastKind, fails, text, str>>

NextAlgo == TestAlgo

SpecAlgo == Init /\ [][NextAlgo]_vars

TypeOK ==
    /\ pc \in {"start", "built", "algo", "walk", "walked", "done", "panic", "overflow"}
    /\ pos \in 0..Len(blocks)

(***************************************************************************)
(* Properties                                                              *)
(***************************************************************************)

Compared == pc # "start"

BlockIdx == 1..Len(blocks)

HasKind(kind) == \E k \in BlockIdx : blocks[k].Kind = kind

\* the elements s[from .. from+len) of the source, clipped to the sequence
Range(s, from, len) == [i \in 1..len |-> IF from + i <= Len(s) THEN s[from + i] ELSE 0]

\* Walk the blocks in order: copy A[Src..Src+Len) for an equal block, copy
\* B[Dst..Dst+Len) for an insert block, skip a delete block.
RECURSIVE Reconstruct(_, _, _, _, _)
Reconstruct(a, b, bs, i, acc) ==
    IF i > Len(bs) THEN acc
    ELSE LET blk == bs[i]
             piece == IF blk.Kind = 0 THEN Range(a, blk.Src, blk.Len)
                      ELSE IF blk.Kind > 0 THEN Range(b, blk.Dst, blk.Len)
                      ELSE <<>>
         IN Reconstruct(a, b, bs, i + 1, acc \o piece)

\* C1: applying the blocks of Compare(A, B) to A (copy equal blocks from A,
\* copy insert blocks from B, skip delete blocks) reconstructs exactly B.
RoundTrip == Compared => Reconstruct(input, output, blocks, 1, <<>>) = output

\* C2: every equal block of Compare(A, B) is an element-wise match,
\* A[Src + i] = B[Dst + i] for every 0 <= i < Len.
EqualBlocksMatch ==
    Compared =>
      \A k \in BlockIdx : blocks[k].Kind = 0 =>
        \A i \in 0..(blocks[k].Len - 1) :
          /\ blocks[k].Src + i < Len(input)
          /\ blocks[k].Dst + i < Len(output)
          /\ At(input, blocks[k].Src + i) = At(output, blocks[k].Dst + i)

\* the ranges start at `from`, each begins where the previous one ends, and
\* the last one ends at `total`
RECURSIVE Tiles(_, _, _, _)
Tiles(ranges, i, from, total) ==
    IF i > Len(ranges) THEN from = total
    ELSE /\ ranges[i][1] = from
         /\ ranges[i][2] >= 0
         /\ Tiles(ranges, i + 1, from + ranges[i][2], total)

IsSrcBlock(blk) == blk.Kind <= 0
IsDstBlock(blk) == blk.Kind >= 0
SrcRanges(bs) == LET sel == SelectSeq(bs, IsSrcBlock)
                 IN [k \in 1..Len(sel) |-> <<sel[k].Src, sel[k].Len>>]
DstRanges(bs) == LET sel == SelectSeq(bs, IsDstBlock)
                 IN [k \in 1..Len(sel) |-> <<sel[k].Dst, sel[k].Len>>]

\* C3: the source ranges of the delete and equal blocks, in block order,
\* partition [0, len(A)) and the destination ranges of the insert and equal
\* blocks partition [0, len(B)), with no gap and no double coverage.
Coverage ==
    Compared =>
      /\ Tiles(SrcRanges(blocks), 1, 0, Len(input))
      /\ Tiles(DstRanges(blocks), 1, 0, Len(output))

CoverageWitness ==
    /\ pc = "done"
    /\ HasKind(-1) /\ HasKind(0) /\ HasKind(1)
    /\ Len(blocks) >= 4

\* length of a longest common subsequence of the first i elements of a and the
\* first j elements of b, by the textbook recurrence
RECURSIVE LcsLength(_, _, _, _)
LcsLength(a, b, i, j) ==
    IF i = 0 \/ j = 0 THEN 0
    ELSE IF a[i] = b[j] THEN LcsLength(a, b, i - 1, j - 1) + 1
    ELSE LET up == LcsLength(a, b, i - 1, j)
             left == LcsLength(a, b, i, j - 1)
         IN IF up >= left THEN up ELSE left

EditDistance(a, b) == Len(a) + Len(b) - 2 * LcsLength(a, b, Len(a), Len(b))

RECURSIVE EditLength(_, _)
EditLength(bs, i) ==
    IF i > Len(bs) THEN 0
    ELSE (IF bs[i].Kind # 0 THEN bs[i].Len ELSE 0) + EditLength(bs, i + 1)

\* C4: the total Len of the delete and insert blocks of Compare(A, B) equals
\* the minimum insert/delete edit distance len(A) + len(B) - 2 * |LCS(A, B)|,
\* the LCS length being computed independently.
Minimality == Compared => EditLength(blocks, 1) = EditDistance(input, output)

MinimalityWitness ==
    /\ Compared
    /\ Len(lcs) >= 2
    /\ HasKind(-1) /\ HasKind(1)
    /\ EditDistance(input, output) >= 3

\* C5: when a consumer walks the blocks left to right with two cursors, every
\* block's Src equals the source cursor and its Dst the destination cursor at
\* the moment the block is reached.
CursorConsistency ==
    /\ (pc = "walk" /\ pos < Len(blocks)) =>
          /\ blocks[pos + 1].Src = srcIndex
          /\ blocks[pos + 1].Dst = dstIndex
    /\ "src" \notin fails
    /\ "dst" \notin fails

\* the walk has reached an insert block that directly follows a delete block
CursorConsistencyWitness ==
    /\ pc = "walk"
    /\ pos >= 1
    /\ pos < Len(blocks)
    /\ blocks[pos].Kind = -1
    /\ blocks[pos + 1].Kind = 1

\* the runs computeDiff walks, and its srcLast/dstLast on reaching run i
Runs == withSentinel(lcs, Len(input), Len(output))
SrcLastAt(i) == IF i = 1 THEN 0 ELSE Runs[i - 1].PosA + Runs[i - 1].Len
DstLastAt(i) == IF i = 1 THEN 0 ELSE Runs[i - 1].PosB + Runs[i - 1].Len

\* the delete block emitted on reaching run i is the one that starts at srcLast
DeleteEmittedAt(i, k) ==
    /\ Runs[i].PosA > SrcLastAt(i)
    /\ blocks[k].Kind = -1
    /\ blocks[k].Src = SrcLastAt(i)

\* C6 (as stated): the Dst of every delete block is the posB of the upcoming
\* common run, also when an insert block follows the delete.
DeleteDstIsUpcomingPosB ==
    Compared =>
      \A i \in 1..Len(Runs) : \A k \in BlockIdx :
        DeleteEmittedAt(i, k) => blocks[k].Dst = Runs[i].PosB

\* C6 (amended): the Dst of every delete block is dstLast, the end in B of the
\* previous common run (0 before the first run); it is the posB of the
\* upcoming run exactly when no insert block follows the delete.
DeleteDstIsDstLast ==
    Compared =>
      \A i \in 1..Len(Runs) :
        Runs[i].PosA > SrcLastAt(i) =>
          \E k \in BlockIdx :
            /\ DeleteEmittedAt(i, k)
            /\ blocks[k].Dst = DstLastAt(i)
            /\ blocks[k].Len = Runs[i].PosA - SrcLastAt(i)
            /\ (blocks[k].Dst = Runs[i].PosB) <=>
                  ~(k < Len(blocks) /\ blocks[k + 1].Kind = 1)

\* a delete block that an insert block follows, in front of a real run
DeleteDstWitness ==
    /\ Compared
    /\ \E i \in 1..Len(lcs) : \E k \in BlockIdx :
         /\ DeleteEmittedAt(i, k)
         /\ k + 2 <= Len(blocks)
         /\ blocks[k + 1].Kind = 1
         /\ blocks[k + 2].Kind = 0
         /\ blocks[k].Dst # Runs[i].PosB

\* C7: no two consecutive blocks of Compare(A, B) have the same Kind, and
\* every block has Len >= 1.
NoAdjacentSameKind ==
    /\ Compared =>
         /\ \A k \in BlockIdx : blocks[k].Len >= 1
         /\ \A k \in BlockIdx : k < Len(blocks) => blocks[k].Kind # blocks[k + 1].Kind
    /\ "kind" \notin fails

\* two consecutive runs of the chosen LCS are contiguous in A and in B, so
\* their equal blocks were merged
NoAdjacentSameKindWitness ==
    /\ pc = "done"
    /\ \E i \in 1..(Len(lcs) - 1) :
         /\ lcs[i].PosA + lcs[i].Len = lcs[i + 1].PosA
         /\ lcs[i].PosB + lcs[i].Len = lcs[i + 1].PosB

\* C8 (as stated): for every sequence A, Compare(A, A) is exactly one equal
\* block with Src = 0, Dst = 0 and Len = len(A).
IdempotenceEverySequence ==
    (Compared /\ input = output) => blocks = <<DiffBlock(0, 0, 0, Len(input))>>

\* C8 (amended): for every non-empty sequence A, Compare(A, A) is exactly one
\* equal block with Src = 0, Dst = 0 and Len = len(A); for the empty sequence
\* it has no block at all.
IdempotenceNonEmpty ==
    (Compared /\ input = output) =>
        blocks = IF Len(input) = 0 THEN <<>> ELSE <<DiffBlock(0, 0, 0, Len(input))>>

IdempotenceWitness ==
    /\ pc = "done"
    /\ input = output
    /\ Len(input) >= 3
    /\ Len(blocks) = 1

\* C9: Compare([], []) has no blocks, so String() is the empty string and
\* Text() is empty.
EmptyDiff ==
    (input = <<>> /\ output = <<>>) =>
        /\ blocks = <<>>
        /\ pc = "done" => (str = <<>> /\ text = <<>>)

EmptyDiffWitness ==
    /\ pc = "done"
    /\ input = <<>>
    /\ output = <<>>
    /\ str = <<>>

\* C10: for every non-empty A, Compare(A, []) is a single delete block with
\* Src = 0, Dst = 0 and Len = len(A).
EmptyOutput ==
    (Compared /\ Len(input) > 0 /\ output = <<>>) =>
        blocks = <<DiffBlock(-1, 0, 0, Len(input))>>

EmptyOutputWitness ==
    /\ pc = "done"
    /\ output = <<>>
    /\ Len(input) >= 2
    /\ Len(blocks) = 1
    /\ text[1][1] = "-"

\* C11: for every non-empty B, Compare([], B) is a single insert block with
\* Src = 0, Dst = 0 and Len = len(B).
EmptyInput ==
    (Compared /\ input = <<>> /\ Len(output) > 0) =>
        blocks = <<DiffBlock(1, 0, 0, Len(output))>>

EmptyInputWitness ==
    /\ pc = "done"
    /\ input = <<>>
    /\ Len(output) >= 2
    /\ Len(blocks) = 1
    /\ text[1][1] = "+"

IsTextbook == input = TextbookA /\ output = TextbookB

\* C12: Compare of a,b,c,a,b,b,a with c,b,a,b,a,c yields exactly the blocks
\* delete(ab), equal(c), insert(b), equal(ab), delete(b), equal(a), insert(c),
\* which checkDiff renders as -(ab)c+(b)ab-(b)a+(c).
TextbookDiff ==
    (Compared /\ IsTextbook) =>
        /\ blocks = <<DiffBlock(-1, 0, 0, 2), DiffBlock(0, 2, 0, 1), DiffBlock(1, 3, 1, 1),
                      DiffBlock(0, 3, 2, 2), DiffBlock(-1, 5, 4, 1), DiffBlock(0, 6, 4, 1),
                      DiffBlock(1, 7, 5, 1)>>
        /\ renderBlocks(input, output, blocks, 1, <<>>) =
             <<"-", "(", "a", "b", ")", "c", "+", "(", "b", ")", "a", "b",
               "-", "(", "b", ")", "a", "+", "(", "c", ")">>

RECURSIVE TotalLength(_, _)
TotalLength(bs, i) == IF i > Len(bs) THEN 0 ELSE bs[i].Len + TotalLength(bs, i + 1)

\* number of Text() entries that precede the entries of block k
RECURSIVE TextOffset(_, _)
TextOffset(bs, k) == IF k <= 1 THEN 0 ELSE TextOffset(bs, k - 1) + bs[k - 1].Len

NotInsertEntry(e) == e[1] # "+"
NotDeleteEntry(e) == e[1] # "-"

\* the elements of the entries, without their sign
Elements(entries) == [i \in 1..Len(entries) |-> entries[i][2]]

\* C14: Text() has one entry per element of every block, in block order: '-'
\* and A[Src+i] for a delete block, '+' and B[Dst+i] for an insert block, ' '
\* and A[Src+i] for an equal block; so the entries not marked '+' spell A and
\* the entries not marked '-' spell B.
TextSpellsBoth ==
    pc = "done" =>
      /\ Len(text) = TotalLength(blocks, 1)
      /\ \A k \in BlockIdx : \A i \in 0..(blocks[k].Len - 1) :
            text[TextOffset(blocks, k) + i + 1] =
              IF blocks[k].Kind < 0 THEN <<"-", At(input, blocks[k].Src + i)>>
              ELSE IF blocks[k].Kind > 0 THEN <<"+", At(output, blocks[k].Dst + i)>>
              ELSE <<" ", At(input, blocks[k].Src + i)>>
      /\ Elements(SelectSeq(text, NotInsertEntry)) = input
      /\ Elements(SelectSeq(text, NotDeleteEntry)) = output

\* p is a non-empty proper prefix of s
IsProperPrefix(p, s) == Len(p) >= 1 /\ Len(p) < Len(s) /\ SubSeq(s, 1, Len(p)) = p

\* the last element of the prefix p does not occur in s after the prefix, so
\* that matching p with the start of s is the only way to match all of p
PrefixIsOnlyMatch(p, s) == \A j \in (Len(p) + 1)..Len(s) : s[j] # p[Len(p)]

PrefixBlocks(kind, p, s) ==
    <<DiffBlock(0, 0, 0, Len(p)), DiffBlock(kind, Len(p), Len(p), Len(s) - Len(p))>>

\* C15 (as stated): whenever A is a non-empty proper prefix of B, Compare(A, B)
\* is an equal block of length len(A) followed by an insert block of length
\* len(B) - len(A), and Compare(B, A) is that equal block followed by a delete
\* block of that length.
PrefixCase ==
    Compared =>
      /\ IsProperPrefix(input, output) => blocks = PrefixBlocks(1, input, output)
      /\ IsProperPrefix(output, input) => blocks = PrefixBlocks(-1, output, input)

\* C15 (amended): the same, provided the last element of A does not occur in
\* B after the prefix.
PrefixCaseOnlyMatch ==
    Compared =>
      /\ (IsProperPrefix(input, output) /\ PrefixIsOnlyMatch(input, output))
            => blocks = PrefixBlocks(1, input, output)
      /\ (IsProperPrefix(output, input) /\ PrefixIsOnlyMatch(output, input))
            => blocks = PrefixBlocks(-1, output, input)

PrefixCaseWitness ==
    /\ pc = "done"
    /\ IsProperPrefix(input, output)
    /\ PrefixIsOnlyMatch(input, output)
    /\ Len(input) >= 2
    /\ Len(output) >= Len(input) + 2
    /\ Len(blocks) = 2

(***************************************************************************)
(* The recursion of computeLCS and the snake search                        *)
(***************************************************************************)

\* the sub-sequences a call of computeLCS works on
SubA(c) == Slice(input, c.ax, c.ay)
SubB(c) == Slice(output, c.bx, c.by)

\* C16: Compare(A, B) returns a result for all A and B, empty ones included,
\* without runtime failure: no call of computeLCS and no snake search uses an
\* index or a slice bound out of range, and no recursion runs away.
Totality ==
    /\ pc \notin {"panic", "overflow"}
    /\ \A c \in calls : callOK(c)

\* a comparison that recursed and whose searches found several snakes
TotalityWitness ==
    /\ pc = "walk"
    /\ Cardinality(calls) >= 3
    /\ \E c \in calls : Len(c.ls) >= 2 /\ c.ax > 0 /\ c.by < Len(output)

\* C17: the recursion of computeLCS terminates: for every call and every
\* middle snake with Diff > 1, the prefix sub-range and the suffix sub-range
\* are both strictly smaller than the sub-range of the call.
Termination ==
    /\ pc # "overflow"
    /\ \A c \in calls : \A i \in 1..Len(c.ls) :
         c.ls[i].Diff > 1 => subRangesShrink(c.ax, c.ay, c.bx, c.by, c.ls[i])

\* a snake with Diff > 1 whose two sub-ranges are both non-empty
TerminationWitness ==
    /\ pc = "walk"
    /\ \E c \in calls : \E i \in 1..Len(c.ls) :
         LET p == prefixRange(c.ax, c.ay, c.bx, c.by, c.ls[i])
             s == suffixRange(c.ax, c.ay, c.bx, c.by, c.ls[i])
         IN /\ c.ls[i].Diff > 1
            /\ rangeSize(p.ax, p.ay, p.bx, p.by) > 0
            /\ rangeSize(s.ax, s.ay, s.bx, s.by) > 0

\* the run is an element-wise match of a against b inside the sub-range of c
RunMatches(run, c) ==
    /\ run.PosA >= c.ax /\ run.PosA + run.Len <= c.ay
    /\ run.PosB >= c.bx /\ run.PosB + run.Len <= c.by
    /\ \A i \in 0..(run.Len - 1) : At(input, run.PosA + i) = At(output, run.PosB + i)

\* C18: whenever the minimal edit distance of a non-empty sub-range is at
\* most 1, the single run the base case returns has the length of the shorter
\* side and is an element-wise match of the whole shorter side.
TrivialCaseMatches ==
    \A c \in calls :
      (callOK(c) /\ EditDistance(SubA(c), SubB(c)) <= 1) =>
        LET runs == trivialLCS(input, c.ax, c.ay, output, c.bx, c.by)
            n == c.ay - c.ax
            m == c.by - c.bx
        IN /\ Len(runs) = 1
           /\ runs[1].Len = (IF n < m THEN n ELSE m)
           /\ RunMatches(runs[1], c)

\* the state Compare leaves; calls does not change afterwards
JustCompared == pc \in {"walk", "panic", "overflow"} /\ pos = 0

\* C19: every snake returned by diffFindMidSnakes for a non-empty sub-range
\* carries Diff equal to the minimum insert/delete edit distance of that
\* sub-range, so all snakes of one invocation carry the same Diff.
SnakeDiffIsDistance ==
    JustCompared =>
      \A c \in calls : \A i \in 1..Len(c.ls) :
        /\ c.ls[i].Diff = EditDistance(SubA(c), SubB(c))
        /\ c.ls[i].Diff = c.ls[1].Diff

\* a call below the top one that found several snakes, of odd and of even Diff
SnakeDiffWitness ==
    /\ pc = "walk"
    /\ \E c \in calls : Len(c.ls) >= 2 /\ c.ls[1].Diff % 2 = 1 /\ c.ay - c.ax < Len(input)
    /\ \E c \in calls : Len(c.ls) >= 2 /\ c.ls[1].Diff % 2 = 0 /\ c.ls[1].Diff > 0

\* C20: diffFindMidSnakes returns a non-empty list of snakes whenever both
\* sub-sequences are non-empty, the overlap being found at a half-distance
\* hd <= ceil((n+m)/2).
SnakesFound ==
    \A c \in calls :
      callOK(c) =>
        /\ Len(c.ls) > 0
        /\ \A i \in 1..Len(c.ls) :
             (c.ls[i].Diff + 1) \div 2 <= (c.ay - c.ax + c.by - c.bx + 1) \div 2

\* a search that found its overlap only at the last half-distance, with n + m odd
SnakesFoundWitness ==
    /\ pc = "walk"
    /\ \E c \in calls :
         /\ Len(c.ls) > 0
         /\ (c.ay - c.ax + c.by - c.bx) % 2 = 1
         /\ (c.ls[1].Diff + 1) \div 2 = (c.ay - c.ax + c.by - c.bx + 1) \div 2

(***************************************************************************)
(* The candidate lists of computeLCS and their ranking                     *)
(***************************************************************************)

\* the range of the top call of computeLCS
TopRange == [ax |-> 0, ay |-> Len(input), bx |-> 0, by |-> Len(output)]

\* the sum of the run lengths of a candidate list
RECURSIVE SumLen(_, _)
SumLen(cand, i) == IF i > Len(cand) THEN 0 ELSE cand[i].Len + SumLen(cand, i + 1)

\* every candidate has the length of a longest common subsequence
CandidateLengths ==
    JustCompared =>
      \A k \in 1..Len(candidates) :
        SumLen(candidates[k], 1) = LcsLength(input, output, Len(input), Len(output))

\* C21: every candidate list computeLCS returns for the full ranges of A and
\* B is a longest common subsequence: its runs match A against B element by
\* element and the sum of their lengths is the length of a longest common
\* subsequence computed independently.
CandidatesAreLCS ==
    JustCompared =>
      \A k \in 1..Len(candidates) :
        /\ SumLen(candidates[k], 1) = LcsLength(input, output, Len(input), Len(output))
        /\ \A i \in 1..Len(candidates[k]) : RunMatches(candidates[k][i], TopRange)

\* the runs of cand have Len >= 1, lie inside the range of the call c, and
\* each starts at or after the end of the one before in A and in B
RunsOrdered(cand, c) ==
    \A i \in 1..Len(cand) :
      /\ cand[i].Len >= 1
      /\ c.ax <= cand[i].PosA /\ cand[i].PosA + cand[i].Len <= c.ay
      /\ c.bx <= cand[i].PosB /\ cand[i].PosB + cand[i].Len <= c.by
      /\ i > 1 => /\ cand[i - 1].PosA + cand[i - 1].Len <= cand[i].PosA
                  /\ cand[i - 1].PosB + cand[i - 1].Len <= cand[i].PosB

\* C22: in every candidate list returned by a call of computeLCS on
\* [ax, ay) x [bx, by), the runs have Len >= 1, lie inside the sub-range and
\* are ordered without overlap in A and in B.
CandidateRunsOrdered ==
    JustCompared =>
      \A c \in calls : \A k \in 1..Len(c.out) : RunsOrdered(c.out[k], c)

\* a call below the top one that returned a candidate of two runs or more,
\* the top call returning several candidates
CandidateRunsWitness ==
    /\ pc = "walk"
    /\ \E c \in calls : c.ax > 0 /\ \E k \in 1..Len(c.out) : Len(c.out[k]) >= 2
    /\ Len(candidates) >= 2

\* the pair (segments, editCost) of a candidate of the comparison
Score(cand) == diffSegmentCount(cand, Len(input), Len(output))

\* the pair s is lexicographically lower than or equal to the pair t
ScoreLeq(s, t) == s.count < t.count \/ (s.count = t.count /\ s.editCost <= t.editCost)

\* C23: the candidate LCS selects is one of the candidates computeLCS
\* returned and has the lexicographically lowest pair (segments, editCost):
\* no candidate has fewer segments, and none with the same segment count has
\* a lower editCost.
SelectsLowestScore ==
    (JustCompared /\ Len(candidates) > 0) =>
      /\ \E k \in 1..Len(candidates) : candidates[k] = lcs
      /\ \A k \in 1..Len(candidates) : ScoreLeq(Score(lcs), Score(candidates[k]))

\* a comparison with a candidate of more segments than the selected one and
\* another of the same segments and a higher editCost
SelectsLowestScoreWitness ==
    /\ pc = "walk"
    /\ \E k \in 1..Len(candidates) : Score(candidates[k]).count > Score(lcs).count
    /\ \E k \in 1..Len(candidates) :
         /\ Score(candidates[k]).count = Score(lcs).count
         /\ Score(candidates[k]).editCost > Score(lcs).editCost

\* C24: the segment count diffSegmentCount assigns to a candidate equals the
\* number of DiffBlocks computeDiff produces from that candidate, for every
\* candidate computeLCS returns, contiguous runs included.
SegmentCountIsBlockCount ==
    JustCompared =>
      \A k \in 1..Len(candidates) :
        Score(candidates[k]).count = Len(computeDiff(candidates[k], Len(input), Len(output)))

\* the candidate has the lowest pair (segments, editCost) of the comparison
IsLowest(cand) == \A k \in 1..Len(candidates) : ScoreLeq(Score(cand), Score(candidates[k]))

\* C25: the block sequence of Compare(A, B) does not depend on the order in
\* which the candidates are enumerated or ranked: any two candidates that tie
\* on (segments, editCost) for the minimum compile to the same block sequence.
TiesCompileAlike ==
    JustCompared =>
      \A k1, k2 \in 1..Len(candidates) :
        (IsLowest(candidates[k1]) /\ IsLowest(candidates[k2])) =>
          computeDiff(candidates[k1], Len(input), Len(output))
            = computeDiff(candidates[k2], Len(input), Len(output))

(***************************************************************************)
(* The candidate budget                                                    *)
(***************************************************************************)
Built == pc = "built"

\* C26: under every budget, each call of computeLCS on a non-empty range,
\* at every depth of the recursion, returns at least one candidate list and
\* at most max(1, maxCandidates) of them
CandidateBudget ==
    Built => \A c \in calls :
               /\ Len(c.out) >= 1
               /\ Len(c.out) <= c.maxCandidates

\* a call that fills a budget of more than one from several snakes, above a
\* call whose share of the budget was rounded down to nothing
CandidateBudgetWitness ==
    /\ Built
    /\ \E c \in calls :
         /\ c.maxCandidates > 1
         /\ Len(c.ls) > 1
         /\ Len(c.out) = c.maxCandidates
         /\ \E s \in calls :
              /\ strictlySmaller([ax |-> s.ax, ay |-> s.ay, bx |-> s.bx, by |-> s.by],
                                 c.ax, c.ay, c.bx, c.by)
              /\ s.maxCandidates = 1
              /\ snakeBudget(c.maxCandidates, Len(c.ls)) = 1

\* the snakes of the call c when no budget cuts the search short
EverySnake(c) == diffFindMidSnakes(SubA(c), SubB(c), maxDiffCandidates)

\* C27: diffFindMidSnakes never returns more than maxCandidates snakes, and
\* when the first distance with an overlap has fewer overlaps than the
\* budget it returns every one of them
SnakeBudget ==
    Built => \A c \in calls :
               /\ Len(c.ls) <= c.maxCandidates
               /\ \A every \in {EverySnake(c)} :
                    Len(every) < c.maxCandidates => c.ls = every

\* one search cut short by its budget, and one that returned its several
\* overlaps below the budget
SnakeBudgetWitness ==
    /\ Built
    /\ \E c \in calls :
         /\ Len(c.ls) = c.maxCandidates
         /\ Len(EverySnake(c)) > c.maxCandidates
    /\ \E c \in calls :
         /\ Len(c.ls) > 1
         /\ Len(c.ls) < c.maxCandidates

(***************************************************************************)
(* The snakes and the ranges derived from them                             *)
(***************************************************************************)
\* the snake s lies inside the grid of the call c
InGrid(s, c) ==
    /\ s.Len >= 0
    /\ 0 <= s.PosA /\ s.PosA + s.Len <= c.ay - c.ax
    /\ 0 <= s.PosB /\ s.PosB + s.Len <= c.by - c.bx

\* the snake s runs over equal elements of the two sub-sequences of c
IsDiagonal(s, c) ==
    \A i \in 0..(s.Len - 1) : At(SubA(c), s.PosA + i) = At(SubB(c), s.PosB + i)

\* the ranges computeLCS derives from s are inside the range of c
RangesWellFormed(s, c) ==
    LET midA == s.PosA + c.ax
        midB == s.PosB + c.bx
    IN /\ c.ax <= midA /\ midA + s.Len <= c.ay
       /\ c.bx <= midB /\ midB + s.Len <= c.by

\* C28: every snake diffFindMidSnakes returns lies inside the edit grid of
\* its two sub-sequences and runs over equal elements, so the prefix and
\* suffix ranges computeLCS derives from it are well-formed
SnakesInGrid ==
    JustCompared => \A c \in calls : \A i \in 1..Len(c.ls) :
                      /\ InGrid(c.ls[i], c)
                      /\ IsDiagonal(c.ls[i], c)
                      /\ RangesWellFormed(c.ls[i], c)

\* a snake of two elements or more off the main diagonal, and a snake with
\* elements in a call on a range that starts past the beginning
SnakesInGridWitness ==
    /\ JustCompared
    /\ \E c \in calls : \E i \in 1..Len(c.ls) :
         /\ c.ls[i].Len >= 2
         /\ c.ls[i].PosA > 0
         /\ c.ls[i].PosA # c.ls[i].PosB
    /\ \E c \in calls : \E i \in 1..Len(c.ls) :
         /\ c.ax > 0
         /\ c.bx > 0
         /\ c.ls[i].Len >= 1

(***************************************************************************)
(* ComputeD                                                                *)
(***************************************************************************)
\* C29: ComputeD(a, b) returns len(a) + len(b) - 2 * (length of a longest
\* common subsequence), the least number of single-element inserts and
\* deletes from a to b; ComputeD(b, a) returns the same; neither call ends
\* in the panic after the loop
ComputeDIsDistance ==
    pc = "algo" =>
        /\ dist[1].end = "return"
        /\ dist[2].end = "return"
        /\ dist[1].d = EditDistance(input, output)
        /\ dist[2].d = dist[1].d

\* two sequences of different lengths that share elements without one being
\* a subsequence of the other
ComputeDWitness ==
    /\ pc = "algo"
    /\ Len(input) > Len(output)
    /\ LcsLength(input, output, Len(input), Len(output)) >= 2
    /\ LcsLength(input, output, Len(input), Len(output)) < Len(output)
    /\ dist[1].d >= 3

(***************************************************************************)
(* Compare(A, B) against Compare(B, A)                                     *)
(***************************************************************************)
\* the element pairs <<i, j>> the equal blocks of bs match
MatchedPairs(bs) ==
    UNION {{<<bs[k].Src + i, bs[k].Dst + i>> : i \in 0..(bs[k].Len - 1)} :
             k \in {k \in 1..Len(bs) : bs[k].Kind = 0}}

Transposed(pairs) == {<<p[2], p[1]>> : p \in pairs}

\* C30: the pairs matched by the equal blocks of Compare(B, A) are the
\* transposed pairs matched by the equal blocks of Compare(A, B); where the
\* ranking leaves Compare(B, A) a choice, one of its results is enough
MirrorSymmetry ==
    (JustCompared /\ pc = "walk") =>
        \E best \in LCS(output, input).out :
            MatchedPairs(computeDiff(best, Len(output), Len(input)))
                = Transposed(MatchedPairs(blocks))

====
